---- MODULE Spec2Model ----
(***************************************************************************)
(* A model of controller.py: ShardHandler, a text file split into shard    *)
(* files ("data/<key>.txt") with a JSON catalog ("mapping.json").          *)
(*                                                                         *)
(* Keys are Python strings.  A string of digits and '-' is modelled as the *)
(* sequence of its characters, a digit d as the number d and '-' as Dash,  *)
(* so that the order of the numbers is the order of the code points.       *)
(* A dict is the sequence of its items in insertion order.                 *)
(* File contents are sequences of one-character strings.                   *)
(***************************************************************************)
EXTENDS Integers, Sequences, FiniteSets, TLC

VARIABLES
    mapping,             \* self.mapping: the catalog held by the handler
    last_char_position,  \* self.last_char_position
    mapfile,             \* mapping.json: [exists, doc]
    data_dir,            \* the files of data/: key |-> content
    lastOp,              \* the last call made
    result,              \* what it raised or returned ("" = completed)
    built,               \* count and data of the last completed build_shards
    clean,               \* every call since that build completed, no file deleted
    deleted,             \* number of files deleted from outside
    stopped,             \* number of calls interrupted
    before,              \* the store before the last call, see Summary
    changed,             \* the last call changed mapping.json or a file of data/
    late,                \* the last call touched a file of data/ after it wrote mapping.json
    call,                \* arguments of a _generate_sharded_data call
    ret                  \* its result

vars == <<mapping, last_char_position, mapfile, data_dir, lastOp, result,
          built, clean, deleted, stopped, before, changed, late, call, ret>>

\* ------------------------------------------------------------ bounds
MaxCount == 4        \* largest count given to build_shards
MaxShards == 3       \* add_shard is not called beyond this many primaries
MaxLevel == 1        \* add_replication is not called beyond this level
WideCount == 11      \* the same, for the specification with many shards
WideShards == 12
RepCount == 2        \* the same, for the specification with more replication
RepShards == 2
RepLevel == 2
PartCount == 4       \* counts and data lengths given to the partitioner alone
PartLen == 4
NegCount == 2        \* counts down to -NegCount are given too
DelKeys == 4         \* with files deleted from outside, the catalog has at most DelKeys keys
MaxDeleted == 2      \* at most this many files are deleted from outside
StopCount == 2       \* the same, for the specification with interrupted calls
StopShards == 2
StopLevel == 2
StopSteps == 5       \* a call is interrupted before its disk step 0..StopSteps
MaxStopped == 1      \* at most this many calls are interrupted

\* ------------------------------------------------------------ strings
Dash == -1

Max(S) == CHOOSE x \in S : \A y \in S : y <= x

Range(s) == {s[i] : i \in DOMAIN s}

RECURSIVE str(_)
str(n) == IF n < 10 THEN <<n>> ELSE str(n \div 10) \o <<n % 10>>

RECURSIVE int(_)
int(s) == IF Len(s) = 1 THEN s[1] ELSE 10 * int(SubSeq(s, 1, Len(s) - 1)) + s[Len(s)]

HasDash(key) == \E i \in DOMAIN key : key[i] = Dash

\* key.index('-'), counted from 0
IndexOfDash(key) == (CHOOSE i \in DOMAIN key : key[i] = Dash /\ \A j \in 1..(i - 1) : key[j] # Dash) - 1

\* key.split('-')[0] and key[:key.index('-')]; the whole key when it has no '-'
SplitHead(key) == IF HasDash(key) THEN SubSeq(key, 1, IndexOfDash(key)) ELSE key

\* key.split('-')[1]
SplitTail(key) == SubSeq(key, IndexOfDash(key) + 2, Len(key))

\* '-'.join([a, b])
Join(a, b) == a \o <<Dash>> \o b

\* Python's order of strings: by code point, a proper prefix first
StrLess(a, b) ==
    \E i \in 1..(Len(a) + 1) :
        /\ \A j \in 1..(i - 1) : j <= Len(b) /\ a[j] = b[j]
        /\ i <= Len(b)
        /\ (i = Len(a) + 1 \/ a[i] < b[i])

RECURSIVE sorted(_)
sorted(S) ==
    IF S = {} THEN <<>>
    ELSE LET m == CHOOSE x \in S : \A y \in S : x = y \/ StrLess(x, y)
         IN <<m>> \o sorted(S \ {m})

RECURSIVE join(_)
join(parts) == IF parts = <<>> THEN <<>> ELSE Head(parts) \o join(Tail(parts))

\* ------------------------------------------------------------ dicts
dict_keys(m) == [i \in DOMAIN m |-> m[i].key]

dict_has(m, k) == \E i \in DOMAIN m : m[i].key = k

dict_get(m, k) == m[CHOOSE i \in DOMAIN m : m[i].key = k]

\* m.update({k: v}): in place when k is a key, at the end otherwise
dict_update(m, k, v) ==
    IF dict_has(m, k)
    THEN [i \in DOMAIN m |-> IF m[i].key = k THEN v ELSE m[i]]
    ELSE Append(m, v)

dict_pop(m, k) == SelectSeq(m, LAMBDA e : e.key # k)

Item(k, s, e) == [key |-> k, start |-> s, end |-> e]

\* ------------------------------------------------------------ the handler
Raise(st, e) == [st EXCEPT !.err = e]

\* A call is a chain of steps on a record st: self.mapping, mapping.json, the files
\* of data/, self.last_char_position and the exception raised, if any (every step
\* passes a raised exception on).  st.steps counts the steps made on the disk: a
\* write of mapping.json, a write, a copy or a removal of a file of data/.  A
\* KeyboardInterrupt arrives in place of the disk step whose number is in st.stop.
Interrupted(st) == st.steps \in st.stop

\* the record after a disk step: persist tells a write of mapping.json from a step
\* on a file of data/
Stepped(st, persist) ==
    [st EXCEPT !.steps = @ + 1,
               !.late = @ \/ (st.persisted /\ ~persist),
               !.persisted = @ \/ persist]

write_map(st) ==
    IF st.err # "" THEN st
    ELSE IF Interrupted(st) THEN Raise(st, "KeyboardInterrupt")
    ELSE [Stepped(st, TRUE) EXCEPT !.mapfile = [exists |-> TRUE, doc |-> st.mapping]]

load_map(st) == IF ~st.mapfile.exists THEN <<>> ELSE st.mapfile.doc

_reset_char_position(st) == [st EXCEPT !.pos = 0]

get_shard_ids(m) == sorted({k \in Range(dict_keys(m)) : ~HasDash(k)})

get_replication_ids(m) == sorted({k \in Range(dict_keys(m)) : HasDash(k)})

_write_shard_mapping(st, num, data, replication) ==
    IF replication
    THEN LET parent == SplitHead(num)
         IN IF ~dict_has(st.mapping, parent)
            THEN Raise(st, "TypeError")
            ELSE LET parent_shard == dict_get(st.mapping, parent)
                 IN [st EXCEPT !.mapping =
                        dict_update(@, num, Item(num, parent_shard.start, parent_shard.end))]
    ELSE LET s0 == IF int(num) = 0 THEN _reset_char_position(st) ELSE st
         IN [s0 EXCEPT
                !.mapping = dict_update(@, num,
                                Item(num,
                                     IF s0.pos = 0 THEN s0.pos ELSE s0.pos + 1,
                                     s0.pos + Len(data))),
                !.pos = s0.pos + Len(data)]

\* with open(path, 'w') as s: s.write(data)
write_file(st, name, data) ==
    IF st.err # "" THEN st
    ELSE IF Interrupted(st) THEN Raise(st, "KeyboardInterrupt")
    ELSE [Stepped(st, FALSE) EXCEPT
             !.files = [k \in DOMAIN @ \cup {name} |-> IF k = name THEN data ELSE @[k]]]

_write_shard(st, num, data) ==
    LET s0 == write_file(st, str(num), data)
    IN IF s0.err # "" THEN s0 ELSE _write_shard_mapping(s0, str(num), data, FALSE)

\* divmod(a, b) of Python for b # 0: the quotient rounds down
PyDiv(a, b) == IF b > 0 THEN a \div b ELSE -((a + (-b) - 1) \div (-b))
PyMod(a, b) == a - b * PyDiv(a, b)

\* data[lo:hi] for 0 <= lo, 0 <= hi
Slice(data, lo, hi) == SubSeq(data, lo + 1, IF hi < Len(data) THEN hi ELSE Len(data))

\* _generate_sharded_data without "if rem > 0": data[-0:] is the whole data
GenWithoutRemCheck(count, data) ==
    LET splicenum == PyDiv(Len(data), count)
        rem == PyMod(Len(data), count)
        res == [i \in 1..(IF count > 0 THEN count ELSE 0) |->
                    Slice(data, splicenum * (i - 1), splicenum * i)]
    IN IF res = <<>> THEN res
       ELSE [res EXCEPT ![Len(res)] =
                @ \o (IF rem = 0 THEN data ELSE SubSeq(data, Len(data) - rem + 1, Len(data)))]

\* range(count) is empty for count <= 0; count = 0 raises before (see GenRaises)
_generate_sharded_data(count, data) ==
    LET splicenum == PyDiv(Len(data), count)
        rem == PyMod(Len(data), count)
        res == [i \in 1..(IF count > 0 THEN count ELSE 0) |->
                    Slice(data, splicenum * (i - 1), splicenum * i)]
    IN IF rem > 0
       THEN [res EXCEPT ![Len(res)] = @ \o SubSeq(data, Len(data) - rem + 1, Len(data))]
       ELSE res

\* divmod(len(data), 0) raises ZeroDivisionError
GenRaises(count) == count = 0

\* for num, d in enumerate(spliced_data): self._write_shard(num, d)
RECURSIVE WriteShards(_, _, _)
WriteShards(st, spliced_data, num) ==
    IF st.err # "" \/ num >= Len(spliced_data) THEN st
    ELSE WriteShards(_write_shard(st, num, spliced_data[num + 1]), spliced_data, num + 1)

AlreadyExists == "Cannot build shard setup -- sharding already exists."

build_shards(st, count, data) ==
    IF st.mapping # <<>> THEN Raise(st, AlreadyExists)
    ELSE IF GenRaises(count) THEN Raise(st, "ZeroDivisionError")
    ELSE write_map(WriteShards(st, _generate_sharded_data(count, data), 0))

\* open(f'data/{db}.txt') raises FileNotFoundError for a missing file
LoadRaises(st) == \E k \in Range(get_shard_ids(st.mapping)) : k \notin DOMAIN st.files

load_data_from_shards(st) ==
    LET ids == get_shard_ids(st.mapping)
    IN join([i \in DOMAIN ids |-> st.files[ids[i]]])

\* shutil.copyfile(source, destination): the source is opened first
copyfile(st, source, destination) ==
    IF st.err # "" THEN st
    ELSE IF Interrupted(st) THEN Raise(st, "KeyboardInterrupt")
    ELSE IF source \notin DOMAIN st.files THEN Raise(st, "FileNotFoundError")
    ELSE [Stepped(st, FALSE) EXCEPT
             !.files = [k \in DOMAIN @ \cup {destination} |->
                           IF k = destination THEN @[source] ELSE @[k]]]

\* os.remove(path)
remove(st, name) ==
    IF st.err # "" THEN st
    ELSE IF Interrupted(st) THEN Raise(st, "KeyboardInterrupt")
    ELSE IF name \notin DOMAIN st.files THEN Raise(st, "FileNotFoundError")
    ELSE [Stepped(st, FALSE) EXCEPT !.files = [k \in DOMAIN @ \ {name} |-> @[k]]]

\* ------------------------------------------------------------ sync_replication
\* the first loop taking a group's filename from the primary's own file alone
SyncScanKeyOwnFile(files, st, key) ==
    LET primary == SplitHead(key)
        secondary == IF HasDash(key) THEN int(SplitTail(key)) ELSE 0
        f0 == IF \E i \in DOMAIN files : files[i].primary = primary
              THEN files
              ELSE Append(files, [primary |-> primary, all_keys |-> {},
                                  filename |-> <<>>, max_rep |-> secondary])
        i == CHOOSE j \in DOMAIN f0 : f0[j].primary = primary
        e1 == [f0[i] EXCEPT !.all_keys = @ \cup {key},
                            !.max_rep = IF @ > secondary THEN @ ELSE secondary]
        e2 == IF key \in DOMAIN st.files
              THEN [e1 EXCEPT !.filename = IF HasDash(key) THEN @ ELSE key,
                              !.all_keys = @ \ {key}]
              ELSE e1
    IN [f0 EXCEPT ![i] = e2]

\* One pass of the first loop: the group of the key's primary, made on first sight
\* (filename '' is <<>>), takes the key as missing unless its file exists.
SyncScanKey(files, st, key) ==
    LET primary == SplitHead(key)
        secondary == IF HasDash(key) THEN int(SplitTail(key)) ELSE 0
        f0 == IF \E i \in DOMAIN files : files[i].primary = primary
              THEN files
              ELSE Append(files, [primary |-> primary, all_keys |-> {},
                                  filename |-> <<>>, max_rep |-> secondary])
        i == CHOOSE j \in DOMAIN f0 : f0[j].primary = primary
        e1 == [f0[i] EXCEPT !.all_keys = @ \cup {key},
                            !.max_rep = IF @ > secondary THEN @ ELSE secondary]
        e2 == IF key \in DOMAIN st.files
              THEN [e1 EXCEPT !.filename = key, !.all_keys = @ \ {key}]
              ELSE e1
    IN [f0 EXCEPT ![i] = e2]

RECURSIVE SyncScan(_, _, _)
SyncScan(files, st, keys) ==
    IF keys = <<>> THEN files
    ELSE SyncScan(SyncScanKey(files, st, Head(keys)), st, Tail(keys))

\* max_rep of the first loop: the largest replica index among the keys
SyncMaxRep(keys) ==
    Max({0} \cup {int(SplitTail(keys[i])) : i \in {j \in DOMAIN keys : HasDash(keys[j])}})

\* for secondary in range(lo, hi + 1): self._write_shard_mapping(num, '', True)
RECURSIVE SyncFillOne(_, _, _, _)
SyncFillOne(st, primary, lo, hi) ==
    IF st.err # "" \/ lo > hi THEN st
    ELSE SyncFillOne(_write_shard_mapping(st, Join(primary, str(lo)), <<>>, TRUE),
                     primary, lo + 1, hi)

\* sync_replication without its second loop
SyncFillNothing(st, files, p, max_rep) == st

RECURSIVE SyncFill(_, _, _, _)
SyncFill(st, files, p, max_rep) ==
    IF st.err # "" \/ p > Len(files) THEN st
    ELSE SyncFill(SyncFillOne(st, files[p].primary, files[p].max_rep + 1, max_rep),
                  files, p + 1, max_rep)

\* all_keys of a group after the second loop
SyncAllKeys(e, max_rep) ==
    e.all_keys \cup {Join(e.primary, str(s)) : s \in (e.max_rep + 1)..max_rep}

\* the copies of a group, passed over when the group has no file to copy from
RECURSIVE SyncCopyKeysSkipping(_, _, _)
SyncCopyKeysSkipping(st, source, keys) ==
    IF st.err # "" \/ keys = {} \/ source \notin DOMAIN st.files THEN st
    ELSE LET key == CHOOSE k \in keys : \A j \in keys : k = j \/ StrLess(k, j)
         IN SyncCopyKeysSkipping(copyfile(st, source, key), source, keys \ {key})

\* for key in files[primary]['all_keys']: copyfile(source, destination).  The
\* order of a set of strings is not fixed: the keys of st.first come first.
RECURSIVE SyncCopyKeys(_, _, _)
SyncCopyKeys(st, source, keys) ==
    IF st.err # "" \/ keys = {} THEN st
    ELSE LET front == IF keys \cap st.first # {} THEN keys \cap st.first ELSE keys
             key == CHOOSE k \in front : \A j \in front : k = j \/ StrLess(k, j)
         IN SyncCopyKeys(copyfile(st, source, key), source, keys \ {key})

\* the third loop, left after the first group that had a key to copy
RECURSIVE SyncCopyOneGroup(_, _, _, _)
SyncCopyOneGroup(st, files, p, max_rep) ==
    IF st.err # "" \/ p > Len(files) THEN st
    ELSE IF SyncAllKeys(files[p], max_rep) # {}
    THEN SyncCopyKeys(st, files[p].filename, SyncAllKeys(files[p], max_rep))
    ELSE SyncCopyOneGroup(st, files, p + 1, max_rep)

\* third loop: every missing key of a group is copied from the group's filename
RECURSIVE SyncCopy(_, _, _, _)
SyncCopy(st, files, p, max_rep) ==
    IF st.err # "" \/ p > Len(files) THEN st
    ELSE SyncCopy(SyncCopyKeys(st, files[p].filename, SyncAllKeys(files[p], max_rep)),
                  files, p + 1, max_rep)

sync_replication(st) ==
    IF st.err # "" THEN st
    ELSE LET s0 == [st EXCEPT !.mapping = load_map(st)]
             keys == dict_keys(s0.mapping)
             files == SyncScan(<<>>, s0, keys)
             max_rep == SyncMaxRep(keys)
             s1 == SyncFill(s0, files, 1, max_rep)
             s2 == SyncCopy(s1, files, 1, max_rep)
         IN write_map(s2)

\* ------------------------------------------------------------ shards
\* [int(z) for z in self.get_shard_ids()], as a set
ShardNums(m) == {int(k) : k \in Range(get_shard_ids(m))}

add_shard(st) ==
    LET s0 == [st EXCEPT !.mapping = load_map(st)]
    IN IF LoadRaises(s0) THEN Raise(s0, "FileNotFoundError")
       ELSE IF ShardNums(s0.mapping) = {} THEN Raise(s0, "ValueError")
       ELSE LET data == load_data_from_shards(s0)
                new_shard_num == Max(ShardNums(s0.mapping)) + 2
                spliced_data == _generate_sharded_data(new_shard_num, data)
            IN sync_replication(write_map(WriteShards(s0, spliced_data, 0)))

\* remove_shard that removes the file of the last shard as soon as it has popped its key
remove_shard_eager(st) ==
    IF LoadRaises(st) THEN Raise(st, "FileNotFoundError")
    ELSE LET data == load_data_from_shards(st)
             s0 == [st EXCEPT !.mapping = load_map(st)]
             all == Range(dict_keys(s0.mapping))
         IN IF all = {} THEN Raise(s0, "ValueError")
            ELSE LET max_key == Max({int(SplitHead(k)) : k \in all})
                 IN IF ~dict_has(s0.mapping, str(max_key)) THEN Raise(s0, "KeyError")
                    ELSE LET s1 == remove([s0 EXCEPT !.mapping = dict_pop(@, str(max_key))],
                                          str(max_key))
                         IN IF s1.err # "" THEN s1
                            ELSE IF ShardNums(s1.mapping) = {} THEN Raise(s1, "ValueError")
                            ELSE LET new_shard_num == Max(ShardNums(s1.mapping)) + 1
                                     spliced_data == _generate_sharded_data(new_shard_num, data)
                                 IN sync_replication(
                                        write_map(WriteShards(s1, spliced_data, 0)))

remove_shard(st) ==
    IF LoadRaises(st) THEN Raise(st, "FileNotFoundError")
    ELSE LET data == load_data_from_shards(st)
             s0 == [st EXCEPT !.mapping = load_map(st)]
             all == Range(dict_keys(s0.mapping))
         IN IF all = {} THEN Raise(s0, "ValueError")
            ELSE LET max_key == Max({int(SplitHead(k)) : k \in all})
                 IN IF ~dict_has(s0.mapping, str(max_key)) THEN Raise(s0, "KeyError")
                    ELSE LET s1 == [s0 EXCEPT !.mapping = dict_pop(@, str(max_key))]
                         IN IF ShardNums(s1.mapping) = {} THEN Raise(s1, "ValueError")
                            ELSE LET new_shard_num == Max(ShardNums(s1.mapping)) + 1
                                     spliced_data == _generate_sharded_data(new_shard_num, data)
                                     s2 == remove(s1, str(max_key))
                                 IN IF s2.err # "" THEN s2
                                    ELSE sync_replication(
                                             write_map(WriteShards(s2, spliced_data, 0)))

\* ------------------------------------------------------------ replication
\* keys.sort(), for a set of numbers
RECURSIVE SortNums(_)
SortNums(S) ==
    IF S = {} THEN <<>>
    ELSE LET m == CHOOSE x \in S : \A y \in S : x <= y IN <<m>> \o SortNums(S \ {m})

\* key_rep[i] = max(key_rep[i], j) on a defaultdict(int): a new key goes last
KeyRepPut(key_rep, i, j) ==
    IF \E n \in DOMAIN key_rep : key_rep[n].key = i
    THEN [n \in DOMAIN key_rep |->
            IF key_rep[n].key = i /\ key_rep[n].rep < j
            THEN [key |-> i, rep |-> j] ELSE key_rep[n]]
    ELSE Append(key_rep, [key |-> i, rep |-> IF j > 0 THEN j ELSE 0])

RECURSIVE KeyRepFold(_, _)
KeyRepFold(key_rep, reps) ==
    IF reps = <<>> THEN key_rep
    ELSE KeyRepFold(KeyRepPut(key_rep, int(SplitHead(Head(reps))), int(SplitTail(Head(reps)))),
                    Tail(reps))

\* key_rep of add_replication and remove_replication: every primary id, then
\* every id that only replica keys name, with its highest replica index
KeyRep(m) ==
    LET keys == SortNums(ShardNums(m))
    IN KeyRepFold([n \in DOMAIN keys |-> [key |-> keys[n], rep |-> 0]],
                  get_replication_ids(m))

\* for key in key_rep: self._write_shard_mapping(str(key)-(rep + 1), data, True)
RECURSIVE AddRepKeys(_, _, _)
AddRepKeys(st, key_rep, data) ==
    IF st.err # "" \/ key_rep = <<>> THEN st
    ELSE AddRepKeys(_write_shard_mapping(st,
                        Join(str(Head(key_rep).key), str(Head(key_rep).rep + 1)), data, TRUE),
                    Tail(key_rep), data)

\* for key in self.mapping.keys(): a replica's file is opened for writing, which
\* empties it, and then copied from its primary's file
RECURSIVE AddRepCopy(_, _)
AddRepCopy(st, keys) ==
    IF st.err # "" \/ keys = <<>> THEN st
    ELSE LET key == Head(keys)
             opened == write_file(st, key, <<>>)
         IN AddRepCopy(IF HasDash(key) THEN copyfile(opened, SplitHead(key), key) ELSE st,
                       Tail(keys))

add_replication(st) ==
    LET s0 == [st EXCEPT !.mapping = load_map(st)]
    IN IF ShardNums(s0.mapping) = {} THEN Raise(s0, "ValueError")
       ELSE IF LoadRaises(s0) THEN Raise(s0, "FileNotFoundError")
       ELSE LET s1 == AddRepKeys(s0, KeyRep(s0.mapping), load_data_from_shards(s0))
                s2 == IF s1.err # "" THEN s1 ELSE AddRepCopy(s1, dict_keys(s1.mapping))
            IN IF s2.err # "" THEN s2 ELSE sync_replication(write_map(s2))

\* remove_replication that passes over a primary without replicas instead of raising
RECURSIVE RemoveRepKeysSkipping(_, _)
RemoveRepKeysSkipping(st, key_rep) ==
    IF st.err # "" \/ key_rep = <<>> THEN st
    ELSE LET e == Head(key_rep)
             shard == Join(str(e.key), str(e.rep))
             s1 == IF e.rep # 0 THEN remove(st, shard) ELSE st
         IN RemoveRepKeysSkipping(IF s1.err # "" \/ e.rep = 0 THEN s1
                                  ELSE [s1 EXCEPT !.mapping = dict_pop(@, shard)],
                                  Tail(key_rep))

\* for key in key_rep: remove the file and the key of the highest replica, or raise
RECURSIVE RemoveRepKeys(_, _)
RemoveRepKeys(st, key_rep) ==
    IF st.err # "" \/ key_rep = <<>> THEN st
    ELSE LET e == Head(key_rep)
             shard == Join(str(e.key), str(e.rep))
             s1 == IF e.rep # 0 THEN remove(st, shard) ELSE Raise(st, "NameError")
         IN RemoveRepKeys(IF s1.err # "" THEN s1
                          ELSE [s1 EXCEPT !.mapping = dict_pop(@, shard)],
                          Tail(key_rep))

remove_replication(st) ==
    LET s0 == [st EXCEPT !.mapping = load_map(st)]
    IN IF ShardNums(s0.mapping) = {} THEN Raise(s0, "ValueError")
       ELSE LET s1 == RemoveRepKeys(s0, KeyRep(s0.mapping))
            IN IF s1.err # "" THEN s1 ELSE sync_replication(write_map(s1))

\* ------------------------------------------------------------ inputs
RECURSIVE Repeat(_, _)
Repeat(c, n) == IF n = 0 THEN <<>> ELSE <<c>> \o Repeat(c, n - 1)

Scenario == Repeat("A", 4) \o Repeat("B", 4) \o Repeat("C", 4) \o Repeat("D", 4)

Corpora == {<<>>, <<"a", "b">>, Scenario}

WideCorpora == {Repeat("a", WideCount) \o <<"b">>}

RECURSIVE SeqsUpTo(_, _)
SeqsUpTo(S, n) ==
    IF n = 0 THEN {<<>>}
    ELSE LET shorter == SeqsUpTo(S, n - 1)
         IN shorter \cup {Append(s, c) : s \in {t \in shorter : Len(t) = n - 1}, c \in S}

\* ------------------------------------------------------------ state machine
\* the record a call starts from
Cur == [mapping |-> mapping, mapfile |-> mapfile, files |-> data_dir,
        pos |-> last_char_position, err |-> "",
        steps |-> 0, stop |-> {}, first |-> {}, persisted |-> FALSE, late |-> FALSE]

\* the persisted catalog
Catalog == load_map(Cur)

CatalogKeys == Range(dict_keys(Catalog))

\* the numbers of the primaries of the catalog
PrimaryNums == {int(k) : k \in {j \in CatalogKeys : ~HasDash(j)}}

PKey(n) == str(n)
RKey(n, i) == Join(str(n), str(i))

\* the replica indices the catalog holds for primary n
ReplicaIndices(n) == {int(SplitTail(k)) : k \in {j \in CatalogKeys : HasDash(j) /\ SplitHead(j) = PKey(n)}}

\* the primaries' files, concatenated by ascending number
NumericConcat ==
    LET nums == SortNums(PrimaryNums)
    IN join([i \in DOMAIN nums |-> data_dir[PKey(nums[i])]])

Completed(op) == lastOp = op /\ result = ""

\* the highest replica index the catalog holds for one of its primaries
Level == Max({0} \cup UNION {ReplicaIndices(n) : n \in PrimaryNums})

\* what `before` keeps of the store and of the calls made: the numbers of primary
\* keys and of replica keys, the level, the number of primaries whose file exists,
\* clean, and whether the last call was a completed sync_replication (kept for a
\* sync_replication alone, see Kept)
Summary ==
    LET keys == CatalogKeys
        reps == {k \in keys : HasDash(k)}
    IN [primaries |-> Cardinality(keys \ reps),
        level |-> Max({0} \cup {int(SplitTail(k)) : k \in {j \in reps : SplitHead(j) \in keys}}),
        replicas |-> Cardinality(reps),
        present |-> Cardinality((keys \ reps) \cap DOMAIN data_dir),
        clean |-> clean,
        synced |-> (lastOp = "sync_replication" /\ result = "")]

\* what a call or another step keeps of the summary of the state it starts from
Kept(op, was) == [was EXCEPT !.synced = @ /\ op = "sync_replication"]

NoSummary == [primaries |-> 0, level |-> 0, replicas |-> 0, present |-> 0,
              clean |-> FALSE, synced |-> FALSE]

NoCall == [count |-> 0, data |-> <<>>]
NoRet == [err |-> "", out |-> <<>>]

Init ==
    /\ mapping = <<>>
    /\ last_char_position = 0
    /\ mapfile = [exists |-> FALSE, doc |-> <<>>]
    /\ data_dir = <<>>
    /\ lastOp = "__init__"
    /\ result = ""
    /\ built = NoCall
    /\ clean = FALSE
    /\ deleted = 0
    /\ stopped = 0
    /\ before = NoSummary
    /\ changed = FALSE
    /\ late = FALSE
    /\ call = NoCall
    /\ ret = NoRet

\* the handler and the disk after a call that ended in state r
Becomes(op, r, was) ==
    /\ mapping' = r.mapping
    /\ last_char_position' = r.pos
    /\ mapfile' = r.mapfile
    /\ data_dir' = r.files
    /\ lastOp' = op
    /\ result' = r.err
    /\ before' = Kept(op, was)
    /\ changed' = (r.mapfile # mapfile \/ r.files # data_dir)
    /\ late' = r.late
    /\ stopped' = IF r.err = "KeyboardInterrupt" THEN stopped + 1 ELSE stopped
    /\ UNCHANGED <<deleted, call, ret>>

Called(op, r) ==
    /\ Becomes(op, r, Summary)
    /\ clean' = (clean /\ r.err = "")
    /\ UNCHANGED built

\* s = ShardHandler() on the files as they are
NewHandler ==
    /\ lastOp # "__init__"
    /\ mapping' = load_map(Cur)
    /\ last_char_position' = 0
    /\ lastOp' = "__init__"
    /\ result' = ""
    /\ before' = Kept("__init__", Summary)
    /\ changed' = FALSE
    /\ late' = FALSE
    /\ UNCHANGED <<mapfile, data_dir, built, clean, deleted, stopped, call, ret>>

Build(counts, corpora) ==
    LET was == Summary
    IN \E count \in counts, data \in corpora :
        LET r == build_shards(Cur, count, data)
        IN /\ Becomes("build_shards", r, was)
           /\ built' = IF r.err = "" THEN [count |-> count, data |-> data] ELSE built
           /\ clean' = (r.err = "")

\* build_shards on a handler that holds no catalog
BuildEmpty(counts, corpora) ==
    /\ mapping = <<>>
    /\ Build(counts, corpora)

AddShard(maxShards) ==
    /\ Cardinality(ShardNums(load_map(Cur))) < maxShards
    /\ Called("add_shard", add_shard(Cur))

\* add_shard, unless it gives the catalog more than maxKeys keys
AddShardWithin(maxKeys) ==
    LET r == add_shard(Cur)
    IN /\ Len(load_map(r)) <= maxKeys
       /\ Called("add_shard", r)

RemoveShard ==
    /\ lastOp' = "remove_shard"
    /\ Called("remove_shard", remove_shard(Cur))

AddReplication(maxLevel) ==
    /\ SyncMaxRep(dict_keys(load_map(Cur))) < maxLevel
    /\ Called("add_replication", add_replication(Cur))

\* add_replication, unless it gives the catalog more than maxKeys keys
AddReplicationWithin(maxKeys) ==
    LET r == add_replication(Cur)
    IN /\ Len(load_map(r)) <= maxKeys
       /\ Called("add_replication", r)

RemoveReplication ==
    /\ lastOp' = "remove_replication"
    /\ Called("remove_replication", remove_replication(Cur))

SyncReplication ==
    /\ lastOp' = "sync_replication"
    /\ Called("sync_replication", sync_replication(Cur))

\* a file of data/ is deleted from outside the handler
DeleteFile(maxDeleted) ==
    /\ deleted < maxDeleted
    /\ \E k \in DOMAIN data_dir :
        /\ data_dir' = [j \in DOMAIN data_dir \ {k} |-> data_dir[j]]
        /\ deleted' = deleted + 1
        /\ lastOp' = "delete"
        /\ result' = ""
        /\ clean' = FALSE
        /\ before' = Kept("delete", Summary)
        /\ changed' = TRUE
        /\ late' = FALSE
        /\ UNCHANGED <<mapping, last_char_position, mapfile, built, stopped, call, ret>>

\* the names a call is made by
Run(op, st) ==
    CASE op = "add_shard" -> add_shard(st)
      [] op = "remove_shard" -> remove_shard(st)
      [] op = "add_replication" -> add_replication(st)
      [] op = "remove_replication" -> remove_replication(st)
      [] op = "sync_replication" -> sync_replication(st)

\* the record a call starts from when a KeyboardInterrupt stops it before its disk
\* step number n
CurStopped(n, first) == [Cur EXCEPT !.stop = {n}, !.first = first]

\* the replica keys a call may come to copy
Copied(maxLevel) ==
    {Join(SplitHead(k), str(i)) : k \in Range(dict_keys(load_map(Cur))), i \in 1..maxLevel}
        \ DOMAIN data_dir

\* build_shards, interrupted before it has written mapping.json
InterruptBuild(counts, corpora, maxSteps, maxStopped) ==
    LET was == Summary
    IN /\ stopped < maxStopped
       /\ \E count \in counts, data \in corpora, n \in 0..maxSteps :
            LET r == build_shards(CurStopped(n, {}), count, data)
            IN /\ r.err = "KeyboardInterrupt"
               /\ Becomes("build_shards", r, was)
               /\ clean' = FALSE
               /\ UNCHANGED built

\* another call, interrupted before it has written mapping.json for the last time
Interrupt(ops, maxShards, maxLevel, maxSteps, maxStopped) ==
    LET was == Summary
        catalog == load_map(Cur)
    IN /\ stopped < maxStopped
       /\ \E op \in ops, n \in 0..maxSteps, first \in SUBSET Copied(maxLevel) :
            LET r == Run(op, CurStopped(n, first))
            IN /\ op = "add_shard" => Cardinality(ShardNums(catalog)) < maxShards
               /\ op = "add_replication" => SyncMaxRep(dict_keys(catalog)) < maxLevel
               /\ r.err = "KeyboardInterrupt"
               /\ Becomes(op, r, was)
               /\ clean' = FALSE
               /\ UNCHANGED built

Next ==
    \/ NewHandler
    \/ Build((-NegCount)..MaxCount, Corpora)
    \/ AddShard(MaxShards)
    \/ RemoveShard
    \/ AddReplication(MaxLevel)
    \/ RemoveReplication
    \/ SyncReplication

Spec == Init /\ [][Next]_vars

\* the shard operations alone, with up to WideShards shards
NextWide ==
    \/ NewHandler
    \/ Build(1..WideCount, WideCorpora)
    \/ AddShard(WideShards)
    \/ RemoveShard
    \/ SyncReplication

SpecWide == Init /\ [][NextWide]_vars

\* the same handler with fewer shards and up to RepLevel levels of replication
NextRep ==
    \/ NewHandler
    \/ Build((-NegCount)..RepCount, Corpora)
    \/ AddShard(RepShards)
    \/ RemoveShard
    \/ AddReplication(RepLevel)
    \/ RemoveReplication
    \/ SyncReplication

SpecRep == Init /\ [][NextRep]_vars

\* files deleted from outside, on a catalog of few keys
DelCorpora == {<<"a", "b", "c">>}

NextDel ==
    \/ BuildEmpty(1..DelKeys, DelCorpora)
    \/ AddShardWithin(DelKeys)
    \/ RemoveShard
    \/ AddReplicationWithin(DelKeys)
    \/ RemoveReplication
    \/ SyncReplication
    \/ DeleteFile(MaxDeleted)

SpecDel == Init /\ [][NextDel]_vars

\* calls interrupted by KeyboardInterrupt
Calls == {"add_shard", "remove_shard", "add_replication", "remove_replication"}

NextStop ==
    \/ NewHandler
    \/ Build(1..StopCount, DelCorpora)
    \/ AddShard(StopShards)
    \/ RemoveShard
    \/ AddReplication(StopLevel)
    \/ RemoveReplication
    \/ SyncReplication
    \/ InterruptBuild(1..StopCount, DelCorpora, StopSteps, MaxStopped)
    \/ Interrupt(Calls, StopShards, StopLevel, StopSteps, MaxStopped)

SpecStop == Init /\ [][NextStop]_vars

\* the partitioner alone, on every count and every data within the bounds
partition(count, data) ==
    IF GenRaises(count) THEN [err |-> "ZeroDivisionError", out |-> <<>>]
    ELSE [err |-> "", out |-> _generate_sharded_data(count, data)]

InitPart ==
    /\ mapping = <<>>
    /\ last_char_position = 0
    /\ mapfile = [exists |-> FALSE, doc |-> <<>>]
    /\ data_dir = <<>>
    /\ lastOp = "__init__"
    /\ result = ""
    /\ built = NoCall
    /\ clean = FALSE
    /\ deleted = 0
    /\ stopped = 0
    /\ before = NoSummary
    /\ changed = FALSE
    /\ late = FALSE
    /\ call \in [count : (-NegCount)..PartCount, data : SeqsUpTo({"a", "b"}, PartLen)]
    /\ ret = NoRet

Partition ==
    /\ lastOp = "__init__"
    /\ lastOp' = "_generate_sharded_data"
    /\ ret' = partition(call.count, call.data)
    /\ result' = ret'.err
    /\ UNCHANGED <<mapping, last_char_position, mapfile, data_dir, built, clean, deleted,
                   stopped, before, changed, late, call>>

SpecPart == InitPart /\ [][Partition]_vars

\* ------------------------------------------------------------ claims
\* C1: after a build with count >= 1 and calls that all completed, the primaries'
\* files, taken in the order of their numbers, concatenate to the data built from.
C1_RoundTrip ==
    (clean /\ built.count >= 1) =>
        /\ \A n \in PrimaryNums : PKey(n) \in DOMAIN data_dir
        /\ NumericConcat = built.data

\* the replica keys of the catalog whose primary is in the catalog
ReplicaKeys == {k \in CatalogKeys : HasDash(k) /\ SplitHead(k) \in CatalogKeys}

Uniform == \A n \in PrimaryNums : ReplicaIndices(n) = 1..Level

Range_(k) == <<dict_get(Catalog, k).start, dict_get(Catalog, k).end>>

\* C2: after a completed sync_replication, add_shard or remove_shard, the file of
\* every replica of a catalogued primary has the content of the primary's file.
C2_ReplicasMirror ==
    (result = "" /\ lastOp \in {"sync_replication", "add_shard", "remove_shard"}) =>
        \A k \in ReplicaKeys :
            /\ k \in DOMAIN data_dir
            /\ SplitHead(k) \in DOMAIN data_dir
            /\ data_dir[k] = data_dir[SplitHead(k)]

\* C3: a completed remove_shard on primaries 0..c-1, c >= 2, leaves neither a key
\* nor a file of primary c-1 or of a replica of c-1.
C3_RemovedShardGone ==
    [][LET c == Cardinality(PrimaryNums)
       IN (lastOp' = "remove_shard" /\ result' = "" /\ c >= 2 /\ PrimaryNums = 0..(c - 1)) =>
            \A k \in CatalogKeys' \cup DOMAIN data_dir' : SplitHead(k) # PKey(c - 1)]_vars

\* C4: after a completed build and calls that all completed, the primaries of the
\* catalog are 0..n-1 for an n >= 1; a completed add_shard raises n by one, a
\* completed remove_shard lowers it by one.
C4_Contiguous ==
    [][(clean' /\ result' = "") =>
         /\ \E n \in 1..(Cardinality(PrimaryNums') + 1) : PrimaryNums' = 0..(n - 1)
         /\ lastOp' = "add_shard" => Cardinality(PrimaryNums') = Cardinality(PrimaryNums) + 1
         /\ lastOp' = "remove_shard" => Cardinality(PrimaryNums') = Cardinality(PrimaryNums) - 1]_vars

\* the first part of C4 for builds with count >= 1 alone (it holds)
ContiguousFromCount1 ==
    (clean /\ result = "" /\ built.count >= 1) =>
        \E n \in 1..Cardinality(PrimaryNums) : PrimaryNums = 0..(n - 1)

\* C5: after a completed build of data at least count long, primary 0 starts at 0,
\* every later primary starts one past the end of the one before, and every
\* primary's end - start + 1 is the length of its file; the 16 characters of the
\* scenario, built with count 4, give [0,3], [4,7], [8,11], [12,15].
C5_BuildRanges ==
    (Completed("build_shards") /\ built.count >= 1 /\ Len(built.data) >= built.count) =>
        /\ Range_(PKey(0))[1] = 0
        /\ \A n \in PrimaryNums \ {0} : Range_(PKey(n))[1] = Range_(PKey(n - 1))[2] + 1
        /\ \A n \in PrimaryNums : Range_(PKey(n))[2] - Range_(PKey(n))[1] + 1 = Len(data_dir[PKey(n)])
        /\ (built.count = 4 /\ built.data = Scenario) =>
              \A n \in 0..3 : Range_(PKey(n)) = <<4 * n, 4 * n + 3>>

\* C6: for count >= 1 the partitioner returns count consecutive slices of the
\* data, the first count-1 of length q, the last of length q + r, where
\* q, r = divmod(len(data), count); joined in order they are the data.
C6_Partition ==
    (lastOp = "_generate_sharded_data" /\ call.count >= 1) =>
        LET n == Len(call.data)
            q == n \div call.count
            r == n % call.count
        IN /\ ret.err = ""
           /\ Len(ret.out) = call.count
           /\ \A i \in 1..(call.count - 1) : ret.out[i] = SubSeq(call.data, q * (i - 1) + 1, q * i)
           /\ ret.out[call.count] = SubSeq(call.data, q * (call.count - 1) + 1, n)
           /\ Len(ret.out[call.count]) = q + r
           /\ join(ret.out) = call.data

\* data shorter than the count, and data with a remainder, have been partitioned
C6_Witness ==
    /\ lastOp = "_generate_sharded_data"
    /\ call.count = 3
    /\ Len(call.data) = 2
    /\ ret.out = <<<<>>, <<>>, call.data>>

\* C7: a build on a non-empty persisted catalog reports failure and changes
\* neither the catalog file nor a shard file.
C7_BuildRefused ==
    [][(Catalog # <<>> /\ lastOp' = "build_shards") =>
         /\ result' = AlreadyExists
         /\ mapfile' = mapfile
         /\ data_dir' = data_dir]_vars

\* C8: with at least one primary, every primary's file present and every primary
\* at the same level L, add_replication completes and every primary N then has
\* the key N-(L+1), its file holding what the file of N holds.
C8_AddReplication ==
    [][(/\ lastOp' = "add_replication"
        /\ PrimaryNums # {}
        /\ \A n \in PrimaryNums : PKey(n) \in DOMAIN data_dir
        /\ Uniform) =>
         /\ result' = ""
         /\ \A n \in PrimaryNums :
              /\ RKey(n, Level + 1) \in CatalogKeys'
              /\ RKey(n, Level + 1) \in DOMAIN data_dir'
              /\ data_dir'[RKey(n, Level + 1)] = data_dir'[PKey(n)]]_vars

\* C9: after every completed call every primary of the catalog has the replica
\* keys 1..L for one L; a completed remove_replication at level L >= 1 removes
\* the key and the file N-L of every primary N and leaves the level L - 1.
C9_UniformLevel ==
    (result = "" /\ lastOp \notin {"__init__", "_generate_sharded_data"}) =>
        /\ Uniform
        /\ (lastOp = "remove_replication" /\ before.level >= 1) =>
              /\ \A n \in PrimaryNums :
                    /\ RKey(n, before.level) \notin CatalogKeys
                    /\ RKey(n, before.level) \notin DOMAIN data_dir
              /\ Level = before.level - 1

\* a remove_replication has completed from level 2 on more than one primary
C9_Witness ==
    /\ Completed("remove_replication")
    /\ before.level = 2
    /\ Level = 1
    /\ Cardinality(PrimaryNums) >= 2
    /\ \E n \in PrimaryNums : RKey(n, 2) \notin DOMAIN data_dir /\ RKey(n, 1) \in DOMAIN data_dir

\* C10: remove_replication on a catalog without replica keys raises and changes
\* neither the catalog file nor a shard file.
C10_NothingToRemove ==
    (lastOp = "remove_replication" /\ before.replicas = 0) =>
        /\ result # ""
        /\ ~changed

\* remove_replication has raised NameError on primaries that have no replica
C10_Witness ==
    /\ lastOp = "remove_replication"
    /\ result = "NameError"
    /\ PrimaryNums # {}
    /\ before.replicas = 0
    /\ before.primaries >= 2
    /\ DOMAIN data_dir = CatalogKeys

\* the calls that change the store
Operations == {"build_shards", "add_shard", "remove_shard", "add_replication",
               "remove_replication", "sync_replication"}

\* C11: remove_shard on a catalog with exactly one primary, with or without
\* replicas, raises and changes neither the catalog file nor a shard file: the
\* catalog keeps its one primary.
C11_LastShardKept ==
    (lastOp = "remove_shard" /\ before.primaries = 1) =>
        /\ result # ""
        /\ ~changed
        /\ Cardinality(PrimaryNums) = 1

\* remove_shard has raised on a catalog of one primary and its replica
C11_Witness ==
    /\ lastOp = "remove_shard"
    /\ result = "ValueError"
    /\ before.primaries = 1
    /\ before.replicas >= 1
    /\ CatalogKeys = {PKey(0), RKey(0, 1)}
    /\ DOMAIN data_dir = CatalogKeys

\* C12: no build_shards with a count below 1 completes (the partitioner raises
\* for every count below 1, so nothing is written and no catalog is persisted).
C12_CountBelowOne ==
    (lastOp = "build_shards" /\ result = "") => built.count >= 1

\* C13: after every completed call, with no file deleted from outside, the keys
\* of the persisted catalog are the names of the files of data/.
C13_KeysAreFiles ==
    (result = "" /\ lastOp \in Operations) => CatalogKeys = DOMAIN data_dir

\* the catalogued replica keys of primary n whose files exist
ReplicaFiles(n) == {k \in ReplicaKeys \cap DOMAIN data_dir : SplitHead(k) = PKey(n)}

\* the catalogued primaries whose own file is missing while a replica's file exists
Recoverable == {n \in PrimaryNums : PKey(n) \notin DOMAIN data_dir /\ ReplicaFiles(n) # {}}

\* the ids named by a key of the catalog none of whose keys has a file
Lost == {SplitHead(k) : k \in CatalogKeys} \ {SplitHead(f) : f \in CatalogKeys \cap DOMAIN data_dir}

\* every file that existed is still there, with the content it had
FilesKept == \A f \in DOMAIN data_dir : f \in DOMAIN data_dir' /\ data_dir'[f] = data_dir[f]

\* every recoverable primary has its file again, with the content of a replica's file
Restored ==
    \A n \in Recoverable :
        /\ PKey(n) \in DOMAIN data_dir'
        /\ \E f \in ReplicaFiles(n) : data_dir'[PKey(n)] = data_dir[f]

C15_SyncTwice ==
    (lastOp = "sync_replication" /\ before.synced) => ~changed

\* two sync_replication in a row have completed after files were deleted
C15_Witness ==
    /\ Completed("sync_replication")
    /\ before.synced
    /\ deleted = MaxDeleted
    /\ Cardinality(PrimaryNums) >= 2
    /\ Level >= 1
    /\ CatalogKeys = DOMAIN data_dir

\* C16: a sync_replication that follows a call interrupted before it wrote the
\* catalog for the last time completes, the keys of the catalog are then the
\* names of the files of data/ and, when every call since the build had
\* completed, the primaries' files concatenate to the data built from.
C16_SyncRepairs ==
    [][(/\ result = "KeyboardInterrupt"
        /\ before.clean \/ lastOp = "build_shards"
        /\ lastOp' = "sync_replication") =>
         /\ result' = ""
         /\ CatalogKeys' = DOMAIN data_dir'
         /\ before.clean => NumericConcat' = built.data]_vars

\* C17: after every completed call every replica key of the catalog has the start
\* and the end of its primary, the replicas made before an add_shard or a
\* remove_shard moved the primaries' boundaries included.
C17_ReplicaRanges ==
    (result = "" /\ lastOp \in Operations) =>
        \A k \in ReplicaKeys : Range_(k) = Range_(SplitHead(k))

\* C18: within one call no shard file is written, copied or removed after the
\* call has written the catalog.
C18_PersistLast ==
    lastOp \in Operations => ~late

\* C19: sync_replication in a state where no key of some catalogued primary has
\* a file raises and leaves the catalog file as it was.
C19_DataLoss ==
    [][(lastOp' = "sync_replication" /\ \E n \in PrimaryNums : PKey(n) \in Lost) =>
         /\ result' # ""
         /\ mapfile' = mapfile]_vars

\* sync_replication has raised on a primary whose file and replica file are missing
C19_Witness ==
    /\ lastOp = "sync_replication"
    /\ result = "FileNotFoundError"
    /\ before.replicas >= 1
    /\ \E n \in PrimaryNums : PKey(n) \in Lost /\ ReplicaIndices(n) # {}

\* C20: when the file of a catalogued primary is missing and the file of one of
\* its replicas holds c, then after add_replication, remove_replication or
\* sync_replication, completed or not, a file of that primary or of one of its
\* replicas holds c.
C20_LastCopyKept ==
    [][lastOp' \in {"add_replication", "remove_replication", "sync_replication"} =>
         \A n \in Recoverable : \A f \in ReplicaFiles(n) :
            \E g \in DOMAIN data_dir' :
                SplitHead(g) = PKey(n) /\ data_dir'[g] = data_dir[f]]_vars

====
